---- MODULE Spec2Model ----
(***************************************************************************)
(* Model of the Dropbox memo-file cleanup tool (src/main.py).              *)
(*                                                                         *)
(* The remote store is a tree keyed by lower-cased paths.  A path is a     *)
(* sequence of names, a name is a sequence of characters.  main() ensures  *)
(* the archive folder and then runs process_folder over each configured    *)
(* root; process_folder is modelled with an explicit stack of frames, one  *)
(* step per remote call.  Every remote call may raise ApiError.            *)
(***************************************************************************)
EXTENDS Integers, Sequences, FiniteSets, TLC

VARIABLES tree, tree0, dry_run, archive_path, pc, roots, stack, log, faults

vars == <<tree, tree0, dry_run, archive_path, pc, roots, stack, log, faults>>

\* Number of injected remote errors (ApiError not caused by the store's
\* contents) explored per run.
MaxFaults == 1

----------------------------------------------------------------------------
\* Names and paths

Upper == [c \in {"M", "A"} |-> IF c = "M" THEN "m" ELSE "a"]

LowerChar(c) == IF c \in DOMAIN Upper THEN Upper[c] ELSE c

LowerName(n) == [i \in 1..Len(n) |-> LowerChar(n[i])]

LowerPath(p) == [i \in 1..Len(p) |-> LowerName(p[i])]

MemoWord == <<"m", "e", "m", "o">>

Contains(s, w) ==
    \E i \in 0..(Len(s) - Len(w)) : \A j \in 1..Len(w) : s[i + j] = w[j]

has_memo_in_filename(filename) == Contains(LowerName(filename), MemoWord)

Basename(p) == p[Len(p)]

Join(dir, name) == Append(dir, name)

Parent(p) == SubSeq(p, 1, Len(p) - 1)

IsPrefix(p, q) == Len(p) <= Len(q) /\ SubSeq(q, 1, Len(p)) = p

NMemo == <<"M", "e", "m", "o">>
NMemo2 == <<"m", "e", "m", "o", "2">>
NRep == <<"r", "e", "p">>
NR == <<"r">>
NX == <<"x">>
NY == <<"y">>
NA == <<"A">>
NZ == <<"z">>
NB == <<"b">>

\* The order in which the store returns the children of a folder.
StoreOrder ==
    << LowerName(NA), LowerName(NMemo), NMemo2, NRep, NX, NY, NZ >>

File(n) == [kind |-> "file", name |-> n]
Folder(n) == [kind |-> "folder", name |-> n]

----------------------------------------------------------------------------
\* Initial remote trees

RootPath == <<NR>>

OptEntries ==
    { <<NR, NMemo>>, <<NR, NX>>,
      <<NR, NX, NMemo>>, <<NR, NX, NMemo2>>, <<NR, NX, NRep>>,
      <<NR, NX, NY>>, <<NR, NX, NY, NMemo>> }

IsFolderName(n) == n \in {NR, NX, NY, NA, NZ, NB}

EntryOf(p) == IF IsFolderName(Basename(p)) THEN Folder(Basename(p))
              ELSE File(Basename(p))

ParentClosed(S) == \A p \in S : Len(p) > 2 => Parent(p) \in S

MkTree(S) == [k \in {LowerPath(p) : p \in S} |->
                 EntryOf(CHOOSE p \in S : LowerPath(p) = k)]

BaseTrees == { MkTree(S \cup {RootPath}) :
                 S \in {T \in SUBSET OptEntries : ParentClosed(T)} }

\* The archive path and what the store holds there before the run: nothing,
\* an empty folder, a file, or a folder that already holds a memo file.
ArchiveConfigs ==
    ({<<NR, NA>>} \X {"absent", "folder", "file", "memo"})
    \cup ({<<NR, NZ>>} \X {"folder", "memo"})
    \cup ({<<NB>>} \X {"absent", "folder"})

Extend(t, k, e) == [q \in DOMAIN t \cup {k} |-> IF q = k THEN e ELSE t[q]]

WithArchive(t, a, st) ==
    LET k == LowerPath(a) IN
    CASE st = "absent" -> t
      [] st = "folder" -> Extend(t, k, Folder(Basename(a)))
      [] st = "file"   -> Extend(t, k, File(Basename(a)))
      [] st = "memo"   -> Extend(Extend(t, k, Folder(Basename(a))),
                                 Join(k, LowerName(NMemo)), File(NMemo))

----------------------------------------------------------------------------
\* The remote store

Exists(t, p) == LowerPath(p) \in DOMAIN t

IsFolder(t, p) == Exists(t, p) /\ t[LowerPath(p)].kind = "folder"

\* Direct children of a folder, in the store's order.
Children(t, p) ==
    LET k == LowerPath(p)
        names == SelectSeq(StoreOrder, LAMBDA n : Join(k, n) \in DOMAIN t)
    IN  [i \in 1..Len(names) |-> Join(k, names[i])]

\* files_move_v2 refuses a missing source, an occupied destination, a
\* destination equal to or below the source, and a destination whose parent
\* is not a folder.
CanMove(t, src, dst) ==
    /\ Exists(t, src)
    /\ ~Exists(t, dst)
    /\ ~IsPrefix(LowerPath(src), LowerPath(dst))
    /\ IsFolder(t, Parent(dst))

Relocate(t, src, dst) ==
    LET s == LowerPath(src)
        d == LowerPath(dst)
        moved == {q \in DOMAIN t : IsPrefix(s, q)}
        NewKey(q) == d \o SubSeq(q, Len(s) + 1, Len(q))
        keys == (DOMAIN t \ moved) \cup {NewKey(q) : q \in moved}
    IN  [k \in keys |->
            IF k \in (DOMAIN t \ moved) THEN t[k]
            ELSE LET q == CHOOSE q \in moved : NewKey(q) = k IN
                 IF q = s THEN [kind |-> t[q].kind, name |-> Basename(dst)]
                 ELSE t[q]]

----------------------------------------------------------------------------
\* list_dropbox_folder

EmptyContents == [memo_files |-> <<>>, other_files |-> <<>>, folders |-> <<>>]

IsFileEntry(t, k) == t[k].kind = "file"

\* The partition of the entries received so far.
Classify(t, entries) ==
    [memo_files  |-> SelectSeq(entries, LAMBDA k :
                        IsFileEntry(t, k) /\ has_memo_in_filename(t[k].name)),
     other_files |-> SelectSeq(entries, LAMBDA k :
                        IsFileEntry(t, k) /\ ~has_memo_in_filename(t[k].name)),
     folders     |-> SelectSeq(entries, LAMBDA k : t[k].kind = "folder")]

\* What list_dropbox_folder returns when the listing raises ApiError after
\* `got` entries have been received.
ListResult(t, entries, got) == Classify(t, SubSeq(entries, 1, got))

\* The outcomes of one list_dropbox_folder call: the path is not a folder
\* (the first call raises), the listing completes, or a call raises after
\* the store delivered a proper prefix of the entries (the store chooses
\* the page boundaries).
ListOutcomes(t, p, canFault) ==
    IF ~IsFolder(t, p)
    THEN {[res |-> ListResult(t, <<>>, 0), err |-> TRUE, fault |-> FALSE]}
    ELSE LET entries == Children(t, p) IN
         {[res |-> ListResult(t, entries, Len(entries)),
           err |-> FALSE, fault |-> FALSE]}
         \cup
         (IF canFault
          THEN {[res |-> ListResult(t, entries, got),
                 err |-> TRUE, fault |-> TRUE] :
                    got \in 0..(IF Len(entries) = 0 THEN 0
                                ELSE Len(entries) - 1)}
          ELSE {})

----------------------------------------------------------------------------
\* move_dropbox_file / move_dropbox_folder

NewPath(archive, p) == Join(archive, Basename(p))

\* Variant: the success path of a real move falls through without
\* returning True.
MoveReturn_neverTrue(dry, ok) == dry

\* Variant: the except branch returns True as well.
MoveReturn_alwaysTrue(dry, ok) == TRUE

\* Value returned by move_dropbox_file and move_dropbox_folder.
MoveReturn(dry, ok) == IF dry THEN TRUE ELSE ok

\* Variant: a move the store refuses never returns.
MoveOutcomes_hang(t, src, dst, canFault) ==
    IF CanMove(t, src, dst)
    THEN {TRUE} \cup (IF canFault THEN {FALSE} ELSE {})
    ELSE {}

\* Outcomes of files_move_v2.
MoveOutcomes(t, src, dst, canFault) ==
    IF CanMove(t, src, dst)
    THEN {TRUE} \cup (IF canFault THEN {FALSE} ELSE {})
    ELSE {FALSE}

Event(op, path) ==
    [op |-> op, path |-> path, dst |-> <<>>, called |-> FALSE, ok |-> TRUE,
     ret |-> TRUE, res |-> EmptyContents, where |-> "", level |-> "info"]

MoveEvent(op, src, dst, dry, ok) ==
    [Event(op, src) EXCEPT !.dst = dst, !.called = ~dry, !.ok = ok,
                           !.ret = MoveReturn(dry, ok),
                           !.level = IF MoveReturn(dry, ok) THEN "info"
                                     ELSE "error"]

ListEvent(where, path, out) ==
    [Event("list", path) EXCEPT !.res = out.res, !.ok = ~out.err,
                                !.called = TRUE, !.where = where,
                                !.level = IF out.err THEN "error" ELSE "info"]

\* One call of move_dropbox_file or move_dropbox_folder on src.
Move(op, src, ok) ==
    LET dst == NewPath(archive_path, src) IN
    /\ IF dry_run
       THEN ok = TRUE /\ UNCHANGED <<tree, faults>>
       ELSE /\ ok \in MoveOutcomes(tree, src, dst, faults < MaxFaults)
            /\ tree' = IF ok THEN Relocate(tree, src, dst) ELSE tree
            /\ faults' = IF CanMove(tree, src, dst) /\ ~ok
                         THEN faults + 1 ELSE faults
    /\ log' = Append(log, MoveEvent(op, src, dst, dry_run, ok))

----------------------------------------------------------------------------
\* process_folder

Frame(p) == [folder_path |-> p, pc |-> "list", contents |-> EmptyContents,
             i |-> 1, j |-> 1, sub |-> EmptyContents, k |-> 1,
             all_moved |-> TRUE]

Top == stack[Len(stack)]

SetTop(f) == [stack EXCEPT ![Len(stack)] = f]

Running == pc = "loop" /\ stack # <<>>

\* Variant: the other_files test is missing.
ArchivableLeaf_noOther(c) ==
    /\ Len(c.memo_files) = 1
    /\ c.folders = <<>>

\* The leaf-archive condition.
ArchivableLeaf(c) ==
    /\ Len(c.memo_files) = 1
    /\ c.other_files = <<>>
    /\ c.folders = <<>>

ProcessList ==
    /\ Running /\ Top.pc = "list"
    /\ \E out \in ListOutcomes(tree, Top.folder_path, faults < MaxFaults) :
          /\ log' = Append(log, ListEvent("process", Top.folder_path, out))
          /\ faults' = IF out.fault THEN faults + 1 ELSE faults
          /\ stack' = SetTop([Top EXCEPT !.pc = "files",
                                         !.contents = out.res])
    /\ UNCHANGED <<tree, tree0, dry_run, archive_path, pc, roots>>

MoveMemoFile ==
    /\ Running /\ Top.pc = "files"
    /\ Top.i <= Len(Top.contents.memo_files)
    /\ \E ok \in BOOLEAN : Move("move_file", Top.contents.memo_files[Top.i], ok)
    /\ stack' = SetTop([Top EXCEPT !.i = @ + 1])
    /\ UNCHANGED <<tree0, dry_run, archive_path, pc, roots>>

\* Variant: the subfolder loop does not wait for the memo-file loop.
FilesDone_early(f) == f.pc = "files"

\* The memo-file loop is over and the subfolder loop runs.
FilesDone(f) == f.pc = "files" /\ f.i > Len(f.contents.memo_files)

EvalSubfolder ==
    /\ Running /\ FilesDone(Top)
    /\ Top.j <= Len(Top.contents.folders)
    /\ LET subfolder_path == Top.contents.folders[Top.j] IN
       \E out \in ListOutcomes(tree, subfolder_path, faults < MaxFaults) :
          /\ log' = Append(log, ListEvent("eval", subfolder_path, out))
          /\ faults' = IF out.fault THEN faults + 1 ELSE faults
          /\ stack' = IF ArchivableLeaf(out.res)
                      THEN SetTop([Top EXCEPT !.pc = "leaf", !.sub = out.res,
                                              !.k = 1, !.all_moved = TRUE])
                      ELSE Append(SetTop([Top EXCEPT !.j = @ + 1]),
                                  Frame(subfolder_path))
    /\ UNCHANGED <<tree, tree0, dry_run, archive_path, pc, roots>>

\* Variant: the result of move_dropbox_file is ignored.
AllMoved_ignored(all_moved, moved) == all_moved

\* all_moved after one more move_dropbox_file call returned `moved`.
AllMoved(all_moved, moved) == all_moved /\ moved

LeafMoveFile ==
    /\ Running /\ Top.pc = "leaf"
    /\ Top.k <= Len(Top.sub.memo_files)
    /\ \E ok \in BOOLEAN :
          /\ Move("move_file", Top.sub.memo_files[Top.k], ok)
          /\ stack' = SetTop([Top EXCEPT !.k = @ + 1,
                  !.all_moved = AllMoved(@, MoveReturn(dry_run, ok))])
    /\ UNCHANGED <<tree0, dry_run, archive_path, pc, roots>>

LeafMoveFolder ==
    /\ Running /\ Top.pc = "leaf"
    /\ Top.k > Len(Top.sub.memo_files)
    /\ Top.all_moved
    /\ \E ok \in BOOLEAN : Move("move_folder", Top.contents.folders[Top.j], ok)
    /\ stack' = SetTop([Top EXCEPT !.pc = "files", !.j = @ + 1])
    /\ UNCHANGED <<tree0, dry_run, archive_path, pc, roots>>

LeafSkip ==
    /\ Running /\ Top.pc = "leaf"
    /\ Top.k > Len(Top.sub.memo_files)
    /\ ~Top.all_moved
    /\ log' = Append(log, Event("skip", Top.contents.folders[Top.j]))
    /\ stack' = SetTop([Top EXCEPT !.pc = "files", !.j = @ + 1])
    /\ UNCHANGED <<tree, tree0, dry_run, archive_path, pc, roots, faults>>

Return ==
    /\ Running /\ FilesDone(Top)
    /\ Top.j > Len(Top.contents.folders)
    /\ stack' = SubSeq(stack, 1, Len(stack) - 1)
    /\ UNCHANGED <<tree, tree0, dry_run, archive_path, pc, roots, log, faults>>

----------------------------------------------------------------------------
\* create_archive_folder and main

CreateArchiveExists ==
    /\ pc = "start"
    /\ Exists(tree, archive_path)
    /\ log' = Append(log, [Event("get_metadata", archive_path)
                             EXCEPT !.called = TRUE])
    /\ pc' = "loop"
    /\ UNCHANGED <<tree, tree0, dry_run, archive_path, roots, stack, faults>>

CreateArchiveCreated ==
    /\ pc = "start"
    /\ ~Exists(tree, archive_path)
    /\ tree' = Extend(tree, LowerPath(archive_path),
                      Folder(Basename(archive_path)))
    /\ log' = log \o
          << [Event("get_metadata", archive_path)
                 EXCEPT !.called = TRUE, !.ok = FALSE],
             [Event("create_folder", archive_path) EXCEPT !.called = TRUE] >>
    /\ pc' = "loop"
    /\ UNCHANGED <<tree0, dry_run, archive_path, roots, stack, faults>>

CreateArchiveFails ==
    /\ pc = "start"
    /\ faults < MaxFaults
    /\ \E stage \in {"get_metadata", "create_folder"} :
          /\ stage = "create_folder" => ~Exists(tree, archive_path)
          /\ log' = (IF stage = "create_folder"
                     THEN Append(log, [Event("get_metadata", archive_path)
                                 EXCEPT !.called = TRUE, !.ok = FALSE])
                     ELSE log) \o
                    << [Event(stage, archive_path)
                          EXCEPT !.called = TRUE, !.ok = FALSE,
                                 !.level = "error"] >>
    /\ faults' = faults + 1
    /\ pc' = "aborted"
    /\ UNCHANGED <<tree, tree0, dry_run, archive_path, roots, stack>>

MainCallProcess ==
    /\ pc = "loop" /\ stack = <<>> /\ roots # <<>>
    /\ stack' = <<Frame(Head(roots))>>
    /\ roots' = Tail(roots)
    /\ tree0' = tree
    /\ UNCHANGED <<tree, dry_run, archive_path, pc, log, faults>>

MainFinish ==
    /\ pc = "loop" /\ stack = <<>> /\ roots = <<>>
    /\ pc' = "done"
    /\ UNCHANGED <<tree, tree0, dry_run, archive_path, roots, stack, log, faults>>

dropbox_folder_paths == <<RootPath>>

Init ==
    /\ \E t \in BaseTrees, cfg \in ArchiveConfigs :
          /\ tree = WithArchive(t, cfg[1], cfg[2])
          /\ archive_path = cfg[1]
    /\ tree0 = tree
    /\ dry_run \in BOOLEAN
    /\ pc = "start"
    /\ roots = dropbox_folder_paths
    /\ stack = <<>>
    /\ log = <<>>
    /\ faults = 0

Next ==
    \/ CreateArchiveExists
    \/ CreateArchiveCreated
    \/ CreateArchiveFails
    \/ MainCallProcess
    \/ ProcessList
    \/ MoveMemoFile
    \/ EvalSubfolder
    \/ LeafMoveFile
    \/ LeafMoveFolder
    \/ LeafSkip
    \/ Return
    \/ MainFinish

Spec == Init /\ [][Next]_vars

LiveSpec == Spec /\ WF_vars(Next)

----------------------------------------------------------------------------
\* Reading the trace

Idx == 1..Len(log)

IsMove(e) == e.op \in {"move_file", "move_folder"}

IsList(e, where) == e.op = "list" /\ e.where = where

Terminated == pc \in {"done", "aborted"}

ArchiveInsideRoot == IsPrefix(RootPath, LowerPath(archive_path))

\* The moves decided so far: kind, source and destination.
Decided ==
    {[op |-> log[n].op, src |-> log[n].path, dst |-> log[n].dst] :
        n \in {m \in Idx : IsMove(log[m])}}

\* Index of the process_folder listing whose subfolder loop produced the
\* event at q about subfolder f (0 when there is none).
FrameOf(q, f) ==
    LET c == {n \in 1..(q - 1) : /\ IsList(log[n], "process")
                                 /\ LowerPath(log[n].path) = Parent(f)}
    IN  IF c = {} THEN 0 ELSE CHOOSE n \in c : \A m \in c : m <= n

\* Position of f in a sequence of paths (0 when absent).
PosIn(seq, f) ==
    LET c == {n \in 1..Len(seq) : seq[n] = f}
    IN  IF c = {} THEN 0 ELSE CHOOSE n \in c : TRUE

\* The decisions of a dry run of process_folder over a fixed tree t.
FullListing(t, p) ==
    IF IsFolder(t, p) THEN ListResult(t, Children(t, p), Len(Children(t, p)))
    ELSE EmptyContents

MoveOf(op, src) ==
    [op |-> op, src |-> src, dst |-> NewPath(archive_path, src)]

RECURSIVE DryProcess(_, _)
DryProcess(t, folder_path) ==
    LET contents == FullListing(t, folder_path)
        SubMoves(sub) ==
            LET sc == FullListing(t, sub) IN
            IF ArchivableLeaf(sc)
            THEN {MoveOf("move_file", sc.memo_files[n]) :
                     n \in 1..Len(sc.memo_files)}
                 \cup (IF MoveReturn(TRUE, TRUE)
                       THEN {MoveOf("move_folder", sub)} ELSE {})
            ELSE DryProcess(t, sub)
    IN  {MoveOf("move_file", contents.memo_files[n]) :
            n \in 1..Len(contents.memo_files)}
        \cup UNION {SubMoves(contents.folders[n]) :
                      n \in 1..Len(contents.folders)}

----------------------------------------------------------------------------
\* C1: in a dry run no mutating operation (file move, folder move, folder
\* creation) is ever invoked on the remote store.
C1_DryRunNeverMutates ==
    dry_run =>
        \A n \in Idx :
            ~(log[n].called /\
              log[n].op \in {"move_file", "move_folder", "create_folder"})

\* C2: a run that finished without a listing error and in which every move
\* the store was asked for succeeded decided exactly the moves a dry run
\* decides over the snapshot taken when process_folder was called.
C2_SameDecisions ==
    ( /\ pc = "done"
      /\ \A n \in Idx : (log[n].op = "list" \/ IsMove(log[n])) => log[n].ok )
    => Decided = DryProcess(tree0, RootPath)

C2_Witness ==
    /\ pc = "done" /\ ~dry_run /\ ArchiveInsideRoot
    /\ \A n \in Idx : (log[n].op = "list" \/ IsMove(log[n])) => log[n].ok
    /\ \E n \in Idx : log[n].op = "move_folder" /\ log[n].called
    /\ \E n \in Idx : log[n].op = "move_file" /\ Len(log[n].path) > 3

\* C5: a listing that fails, on the first call or on a continuation call,
\* yields an empty partition.
C5_FailedListIsEmpty ==
    \A n \in Idx :
        (log[n].op = "list" /\ ~log[n].ok) =>
            /\ log[n].res = EmptyContents
            /\ log[n].level = "error"

\* C6: once create_archive_folder has returned, the archive path holds a
\* folder; when it raised, nothing was listed and nothing was moved.
C6_ArchiveEnsured ==
    /\ pc \in {"loop", "done"} => IsFolder(tree, archive_path)
    /\ pc = "aborted" =>
          \A n \in Idx : ~(log[n].op = "list" \/ IsMove(log[n]))
    /\ Cardinality({n \in Idx : log[n].op = "get_metadata"}) <= 1
    /\ \A n \in Idx : (log[n].op = "list" \/ IsMove(log[n])) =>
          \E m \in 1..(n - 1) : log[m].op = "get_metadata"

\* C10: every file whose name has no "memo" stays at its original path and
\* is never the source of a file move.
C10_OtherFilesUntouched ==
    \A k \in DOMAIN tree0 :
        (tree0[k].kind = "file" /\ ~has_memo_in_filename(tree0[k].name)) =>
            /\ k \in DOMAIN tree /\ tree[k] = tree0[k]
            /\ \A n \in Idx : log[n].op = "move_file" => log[n].path # k

----------------------------------------------------------------------------
\* A move_file event that directly follows the evaluation of its folder is
\* the memo-file move of the leaf-archive branch.
LeafFileMoveAt(n) ==
    /\ n > 1
    /\ log[n].op = "move_file"
    /\ IsList(log[n - 1], "eval")
    /\ log[n - 1].path = Parent(log[n].path)

\* The event at n is the evaluation of subfolder f.
EvalAt(n, f) == IsList(log[n], "eval") /\ log[n].path = f

\* C3: after a failed memo-file move in the leaf-archive branch the folder
\* is never moved, the skip is logged next, and the next subfolder of the
\* same listing is evaluated; a folder move directly follows a memo-file
\* move of that folder which returned success.
C3_FailedLeafMoveSkipsFolder ==
    \A n \in Idx :
        /\ (LeafFileMoveAt(n) /\ ~log[n].ret) =>
              LET f == Parent(log[n].path) IN
              /\ \A m \in Idx : log[m].op = "move_folder" => log[m].path # f
              /\ n < Len(log) => (log[n + 1].op = "skip" /\ log[n + 1].path = f)
        /\ log[n].op = "skip" =>
              LET f == log[n].path
                  fr == FrameOf(n, f)
              IN  /\ fr > 0
                  /\ LET F == log[fr].res.folders
                         pos == PosIn(F, f)
                     IN  /\ pos > 0
                         /\ pos < Len(F) =>
                               IF n < Len(log) THEN EvalAt(n + 1, F[pos + 1])
                               ELSE ~Terminated
        /\ log[n].op = "move_folder" =>
              /\ n > 1
              /\ log[n - 1].op = "move_file"
              /\ log[n - 1].ret
              /\ Parent(log[n - 1].path) = log[n].path

C3_Witness ==
    \E n \in Idx :
        /\ LeafFileMoveAt(n) /\ log[n].called /\ ~log[n].ok
        /\ n + 2 <= Len(log)
        /\ log[n + 1].op = "skip"
        /\ IsList(log[n + 2], "eval")

\* C4: a subfolder takes the leaf-archive branch exactly when its listing
\* has one memo file, no other file and no subfolder; otherwise
\* process_folder is called on it and the subfolder itself is never moved.
C4_LeafRule ==
    \A n \in Idx :
        IsList(log[n], "eval") =>
            LET c == log[n].res
                f == log[n].path
                leaf == /\ Len(c.memo_files) = 1
                        /\ Len(c.other_files) = 0
                        /\ Len(c.folders) = 0
            IN  /\ n < Len(log) =>
                      IF leaf
                      THEN /\ log[n + 1].op = "move_file"
                           /\ log[n + 1].path = c.memo_files[1]
                      ELSE /\ IsList(log[n + 1], "process")
                           /\ log[n + 1].path = f
                /\ n = Len(log) =>
                      /\ stack # <<>>
                      /\ IF leaf THEN Top.pc = "leaf"
                         ELSE Top.pc = "list" /\ Top.folder_path = f
                /\ ~leaf =>
                      \A m \in Idx : log[m].op = "move_folder" => log[m].path # f

C4_Witness ==
    /\ \E n \in Idx :
          /\ IsList(log[n], "eval") /\ Len(log[n].res.memo_files) = 2
          /\ log[n].res.other_files = <<>> /\ log[n].res.folders = <<>>
          /\ n + 3 <= Len(log)
    /\ \E n \in Idx :
          /\ IsList(log[n], "eval") /\ Len(log[n].res.memo_files) = 1
          /\ log[n].res.other_files = <<>> /\ log[n].res.folders = <<>>
          /\ n + 2 <= Len(log) /\ log[n + 2].op = "move_folder"

\* C7: after a folder is listed a move is attempted for each of its memo
\* files in turn whatever the earlier moves returned, a failed move is
\* logged as an error and returns false, the first subfolder is evaluated
\* right after the last memo file, and a move the store performed is never
\* undone.
C7_BestEffortMoves ==
    /\ \A n \in Idx :
          IsList(log[n], "process") =>
              LET M == log[n].res.memo_files
                  F == log[n].res.folders
              IN  /\ \A q \in 1..Len(M) :
                        IF n + q <= Len(log)
                        THEN /\ log[n + q].op = "move_file"
                             /\ log[n + q].path = M[q]
                        ELSE ~Terminated /\ stack # <<>>
                  /\ F # <<>> =>
                        IF n + Len(M) < Len(log)
                        THEN EvalAt(n + Len(M) + 1, F[1])
                        ELSE ~Terminated /\ stack # <<>>
    /\ \A n \in Idx :
          (IsMove(log[n]) /\ log[n].called) =>
              IF log[n].ok
              THEN /\ log[n].ret /\ log[n].level = "info"
                   /\ ~Exists(tree, log[n].path)
                   /\ Exists(tree, log[n].dst)
              ELSE ~log[n].ret /\ log[n].level = "error"

C7_Witness ==
    \E n \in Idx :
        /\ IsList(log[n], "process")
        /\ Len(log[n].res.memo_files) = 2
        /\ n + 3 <= Len(log)
        /\ log[n + 1].called /\ ~log[n + 1].ok
        /\ log[n + 2].called /\ log[n + 2].ok
        /\ IsList(log[n + 3], "eval")

\* C8: every subfolder evaluation comes after all the memo-file moves of
\* the listing it belongs to; the subfolders of one listing are evaluated
\* once each, in listing order; a folder move directly follows the move of
\* a memo file of that folder.
C8_Ordering ==
    \A q \in Idx :
        /\ IsList(log[q], "eval") =>
              LET f == log[q].path
                  fr == FrameOf(q, f)
              IN  /\ fr > 0
                  /\ LET M == log[fr].res.memo_files
                         F == log[fr].res.folders
                         pos == PosIn(F, f)
                     IN  /\ q > fr + Len(M)
                         /\ \A m \in 1..Len(M) :
                               /\ log[fr + m].op = "move_file"
                               /\ log[fr + m].path = M[m]
                         /\ pos > 0
                         /\ \A a \in 1..(pos - 1) :
                               \E q2 \in (fr + 1)..(q - 1) : EvalAt(q2, F[a])
                         /\ \A q2 \in (fr + 1)..(q - 1) : ~EvalAt(q2, f)
        /\ log[q].op = "move_folder" =>
              /\ q > 1
              /\ log[q - 1].op = "move_file"
              /\ Parent(log[q - 1].path) = log[q].path

C8_Witness ==
    \E n \in Idx :
        /\ IsList(log[n], "process")
        /\ Len(log[n].res.memo_files) = 1
        /\ Len(log[n].res.folders) = 2
        /\ \E q \in Idx : EvalAt(q, log[n].res.folders[2])
        /\ \E q \in Idx : log[q].op = "move_folder"

\* C9: every run ends: main either finishes the traversal or aborts.
C9_Terminates == <>Terminated

C9_Witness ==
    /\ pc = "done" /\ ~dry_run /\ ArchiveInsideRoot
    /\ \E n \in Idx : log[n].op = "list" /\ ~log[n].ok
    /\ \E n \in Idx : log[n].op = "move_folder" /\ log[n].called /\ log[n].ok
    /\ \E n \in Idx : IsList(log[n], "process") /\ Len(log[n].path) > 1

====
